---- MODULE Spec2Model ----
(***************************************************************************)
(* State-machine model of the files_manager backend:                       *)
(*   controllers/AuthController.js   getConnect, getDisconnect             *)
(*   controllers/FilesController.js  postUpload, getShow, getIndex,        *)
(*                                   putPublish, putUnpublish, getFile     *)
(*   utils/redis.js                  RedisClient.get / set / del           *)
(* Every handler is an async function: it runs atomically between two     *)
(* awaits, and handlers of different requests interleave at the awaits.    *)
(* One action of the model is one such atomic piece, taken at the moment   *)
(* the awaited store operation is executed by the store.                   *)
(***************************************************************************)
EXTENDS Integers, Sequences, FiniteSets, TLC

\* ------------------------------------------------------------------ bounds
\* Number of tokens uuidv4 may mint in one behaviour.
MaxTokens == 2
\* Number of nodes stored, and of local paths minted, in one behaviour.
MaxNodes == 2
\* Size of the largest collection that is listed page by page.
MaxDocs == 41
\* Largest page number a listing asks for.
MaxPage == 2
\* Length in bytes of the longest payload that is uploaded and read back.
MaxLen == 2

\* ------------------------------------------------------- program constants
\* redisClient.set(tokenKey, user._id.toString(), 86400)
SessionTTL == 86400
\* const { name, type, parentId = 0, ... } = req.body : the root sentinel
RootId == 0
\* const pageSize = 20
pageSize == 20
\* '/files/invalid-id' : a string ObjectId() rejects (not 12 bytes / 24 hex)
BadId == -1

\* ------------------------------------------------------------ value spaces
\* Requests served at the same time (handlers in flight on the event loop).
Reqs == {"r1", "r2"}

\* req.headers['x-token'] absent (undefined): !token is true.
NoToken == 0
TokenIds == 1 .. MaxTokens
\* What a client may present as X-Token: nothing, or any token string.
PresentedTokens == {NoToken} \cup TokenIds

\* redisClient.get resolves null for a missing key.
Null == "null"

\* sha1(password): a one-way digest; distinct inputs give distinct digests.
sha1(p) == <<"sha1", p>>

\* The users collection; users are created outside this code and never change.
users ==
    { [_id |-> "u1", email |-> "a@x", password |-> sha1("pa")],
      [_id |-> "u2", email |-> "b@x", password |-> sha1("pb")] }
UserIds == { u._id : u \in users }

\* ----------------------------------------------------------- credentials
\* The decoded credentials string, as a sequence of pieces; ":" is the colon.
Colon == ":"
CredStrings ==
    { <<>>,
      <<"a@x">>,
      <<"a@x", Colon>>,
      <<Colon, "pa">>,
      <<"a@x", Colon, "pa">>,
      <<"a@x", Colon, "pb">>,
      <<"b@x", Colon, "pb">>,
      <<"z@x", Colon, "pa">>,
      <<"a@x", Colon, "pa", Colon, "zz">> }

\* req.headers.authorization
NoHeader == [scheme |-> "none", cred |-> <<>>]
Headers ==
    {NoHeader, [scheme |-> "Bearer", cred |-> <<"a@x", Colon, "pa">>]}
      \cup { [scheme |-> "Basic", cred |-> c] : c \in CredStrings }

\* credentials.split(':') : the pieces between the colons; always >= 1 part.
RECURSIVE splitFrom(_, _, _)
splitFrom(s, cur, acc) ==
    IF s = <<>> THEN Append(acc, cur)
    ELSE IF Head(s) = Colon THEN splitFrom(Tail(s), "", Append(acc, cur))
    ELSE splitFrom(Tail(s), Head(s), acc)
split(s) == splitFrom(s, "", <<>>)

\* const [email, password] = parts : undefined when the part is missing.
Undefined == "undefined"
Nth(parts, i) == IF Len(parts) >= i THEN parts[i] ELSE Undefined
\* !x for a string-or-undefined x
Falsy(x) == x = Undefined \/ x = ""

\* findOne({ email }): the password digest is left out of the query.
findUserByEmail(email, hashedPassword) == { u \in users : u.email = email }
\* dbClient.db.collection('users').findOne({ email, password: hashedPassword })
findUser(email, hashedPassword) ==
    { u \in users : u.email = email /\ u.password = hashedPassword }

\* ------------------------------------------------------------ identifiers
\* Well-formed identifiers a client may present: of a document, or of none yet.
NodeIds == 1 .. MaxNodes
PresentedIds == NodeIds \cup {BadId}
\* ObjectId(x): parses a well-formed identifier, throws on a malformed one.
ObjectId(x) == [ok |-> x # BadId, id |-> x]

\* ------------------------------------------------------------------ base64
\* A base64 string is a sequence of sextets 0..63; Pad stands for '='.
Pad == 64
\* Buffer.from(data, 'base64'): 4 sextets give 3 bytes, '=' ends the data.
RECURSIVE Base64Decode(_)
Base64Decode(d) ==
    IF Len(d) < 2 \/ d[1] = Pad \/ d[2] = Pad THEN <<>>
    ELSE LET b1 == d[1] * 4 + (d[2] \div 16) IN
         IF Len(d) < 3 \/ d[3] = Pad THEN <<b1>>
         ELSE LET b2 == (d[2] % 16) * 16 + (d[3] \div 4) IN
              IF Len(d) < 4 \/ d[4] = Pad THEN <<b1, b2>>
              ELSE <<b1, b2, (d[3] % 4) * 64 + d[4]>>
                     \o Base64Decode(SubSeq(d, 5, Len(d)))

\* req.body.data: absent, or a base64 string ("", "aGk=", "AA==").
NoData == [given |-> FALSE, b64 |-> <<>>]
\* !data
NoDataGiven(d) == ~d.given \/ d.b64 = <<>>

\* ------------------------------------------------------------ request body
NoBody ==
    [name |-> Undefined, type |-> Undefined, parentId |-> RootId,
     isPublic |-> FALSE, data |-> NoData]
\* "aGk=" (the bytes of "hi") and "AA==" (one zero byte)
DataHi == [given |-> TRUE, b64 |-> <<26, 6, 36, Pad>>]
DataZero == [given |-> TRUE, b64 |-> <<0, 0, Pad, Pad>>]
\* Bodies that pass the name, type and data checks.
ValidBodies ==
    [name : {"a.txt"}, type : {"folder"}, parentId : {RootId} \cup PresentedIds,
     isPublic : BOOLEAN, data : {NoData}]
      \cup
    [name : {"a.txt"}, type : {"file"}, parentId : {RootId} \cup PresentedIds,
     isPublic : BOOLEAN, data : {DataHi}]
      \cup
    [name : {"a.txt"}, type : {"image"}, parentId : {RootId, 1},
     isPublic : {FALSE}, data : {DataZero}]
\* Bodies that fail one of them, alone or together with others.
InvalidBodies ==
    [name : {Undefined, ""}, type : {"file"}, parentId : {RootId},
     isPublic : {FALSE}, data : {DataHi}]
      \cup
    [name : {"a.txt"}, type : {Undefined, "bogus"}, parentId : {RootId},
     isPublic : {FALSE}, data : {DataHi}]
      \cup
    { [name |-> "a.txt", type |-> "file", parentId |-> 1, isPublic |-> FALSE,
       data |-> NoData],
      [name |-> "a.txt", type |-> "image", parentId |-> RootId,
       isPublic |-> FALSE, data |-> [given |-> TRUE, b64 |-> <<>>]],
      [name |-> Undefined, type |-> "bogus", parentId |-> BadId,
       isPublic |-> FALSE, data |-> NoData],
      [name |-> "a.txt", type |-> Undefined, parentId |-> 1,
       isPublic |-> FALSE, data |-> NoData] }
Bodies == ValidBodies \cup InvalidBodies

\* A document of the files collection; localPath 0 stands for "no such field".
NoPath == 0
NoFile ==
    [_id |-> 0, userId |-> Null, name |-> "", type |-> "none",
     isPublic |-> FALSE, parentId |-> RootId, localPath |-> NoPath]

\* req.query of GET /files
NoQuery == [hasParent |-> FALSE, parentId |-> RootId, page |-> 0]

\* ---------------------------------------------------------------- requests
\* One request being served: its position (pc), its inputs, the handler's
\* local variables and, once answered, the response.  An input is entered
\* when the handler first reads it.  effects lists the stores the request
\* has written so far.
IdleReq ==
    [pc |-> "idle", op |-> "none", token |-> NoToken, header |-> NoHeader,
     userId |-> Null, body |-> NoBody, id |-> 0, size |-> "",
     query |-> NoQuery, file |-> NoFile, localPath |-> NoPath,
     status |-> 0, error |-> "", node |-> NoFile, list |-> <<>>,
     bytes |-> <<>>, outToken |-> NoToken,
     effects |-> {}, afterRevoke |-> FALSE]

VARIABLES
    cache,      \* the Redis store: key -> [val, ttl]; ttl 0 = no expiry set
    files,      \* the files collection, in insertion (natural) order
    blobs,      \* the content root: <<localPath, suffix>> -> bytes
    queue,      \* fileQueue: the jobs added, in order
    nextToken,  \* tokens minted so far by uuidv4
    nextPath,   \* file names minted so far by uuidv4
    reqs,       \* the requests being served, answered ones until they leave
    revoked     \* tokens for which getDisconnect answered 204

vars == <<cache, files, blobs, queue, nextToken, nextPath, reqs, revoked>>
\* The document store, the blob store and the work queue.
stores == <<files, blobs, queue, nextPath>>

\* `auth_${token}`
tokenKey(token) == <<"auth_", token>>

\* ------------------------------------------------------------- RedisClient
\* RedisClient.get: the value of the key, null when the key is missing.
RedisGet(key) == IF key \in DOMAIN cache THEN cache[key].val ELSE Null
\* SET key value: stores the value; the key has no expiry afterwards.
RedisSetValue(key, value) ==
    [k \in DOMAIN cache \cup {key} |->
        IF k = key THEN [val |-> value, ttl |-> 0] ELSE cache[k]]
\* EXPIRE key duration: sets the time-to-live of an existing key.
RedisExpire(key, duration) ==
    [k \in DOMAIN cache |->
        IF k = key THEN [cache[k] EXCEPT !.ttl = duration] ELSE cache[k]]
\* A del that empties the store: every key goes with the one named.
RedisDelFlushes(key) == [k \in {} |-> cache[k]]
\* RedisClient.del that forgets the key: the command removes nothing.
RedisDelKeepsKey(key) == cache
\* RedisClient.del: removes the key; a missing key is not an error.
RedisDel(key) == [k \in DOMAIN cache \ {key} |-> cache[k]]

\* res.status(...).json(...) / send(): the handler answers and returns.
Respond(r, rec) == reqs' = [reqs EXCEPT ![r] = [rec EXCEPT !.pc = "done"]]
\* The handler of r goes on as rec, up to its next await.
Continue(r, rec) == reqs' = [reqs EXCEPT ![r] = rec]

Unauthorized(rec) == [rec EXCEPT !.status = 401, !.error = "Unauthorized"]
NotFound(rec) == [rec EXCEPT !.status = 404, !.error = "Not found"]
BadRequest(rec, msg) == [rec EXCEPT !.status = 400, !.error = msg]
\* An exception inside the async handler (ObjectId() threw, a store call
\* rejected): the handler's promise rejects and none of the handler's
\* responses is sent (500 stands for that outcome).
Thrown(rec) == [rec EXCEPT !.status = 500, !.error = "exception"]

Init ==
    /\ cache = << >>
    /\ files = << >>
    /\ blobs = << >>
    /\ queue = << >>
    /\ nextToken = 0
    /\ nextPath = 0
    /\ reqs = [r \in Reqs |-> IdleReq]
    /\ revoked = {}

\* ---------------------------------------------------------- AuthController
\* getConnect up to redisClient.set: the header checks and the findOne.
getConnectCheck(h) ==
    IF h.scheme # "Basic" THEN "Unauthorized"
    ELSE LET parts == split(h.cred)
             email == Nth(parts, 1)
             password == Nth(parts, 2)
         IN  IF Falsy(email) \/ Falsy(password) THEN "Unauthorized"
             ELSE IF findUser(email, sha1(password)) = {} THEN "Unauthorized"
             ELSE ""

\* The user findOne returned (emails are unique in users).
getConnectUser(h) ==
    LET parts == split(h.cred)
    IN  CHOOSE u \in findUser(Nth(parts, 1), sha1(Nth(parts, 2))) : TRUE

getConnect(r, h) ==
    /\ reqs[r].pc = "idle"
    /\ LET rec == [IdleReq EXCEPT !.op = "getConnect", !.header = h]
       IN  IF getConnectCheck(h) # ""
           THEN /\ Respond(r, Unauthorized(rec))
                /\ UNCHANGED nextToken
           ELSE /\ nextToken < MaxTokens
                /\ nextToken' = nextToken + 1
                /\ Continue(r, [rec EXCEPT !.pc = "set",
                                           !.outToken = nextToken + 1,
                                           !.userId = getConnectUser(h)._id])
    /\ UNCHANGED <<cache, revoked, stores>>

\* RedisClient.set, first await: SET key value.
getConnectSet(r) ==
    /\ reqs[r].pc = "set"
    /\ cache' = RedisSetValue(tokenKey(reqs[r].outToken), reqs[r].userId)
    /\ Continue(r, [reqs[r] EXCEPT !.pc = "expire",
                                   !.effects = @ \cup {"cache"}])
    /\ UNCHANGED <<nextToken, revoked, stores>>

\* RedisClient.set, second step: EXPIRE key duration; then 200 { token }.
getConnectExpire(r) ==
    /\ reqs[r].pc = "expire"
    /\ cache' = RedisExpire(tokenKey(reqs[r].outToken), SessionTTL)
    /\ Respond(r, [reqs[r] EXCEPT !.status = 200])
    /\ UNCHANGED <<nextToken, revoked, stores>>

\* The EXPIRE command is lost (the connection drops after SET).  client.expire
\* is called without a callback, so nothing reports it: 200 all the same.
getConnectExpireLost(r) ==
    /\ reqs[r].pc = "expire"
    /\ Respond(r, [reqs[r] EXCEPT !.status = 200])
    /\ UNCHANGED <<cache, nextToken, revoked, stores>>

\* The cache store drops a key whose time-to-live has elapsed.
TTLElapse(key) ==
    /\ key \in DOMAIN cache
    /\ cache[key].ttl > 0
    /\ cache' = RedisDel(key)
    /\ UNCHANGED <<nextToken, revoked, reqs, stores>>

\* The response of r has gone out; the next request may be served.
Finish(r) ==
    /\ reqs[r].pc = "done"
    /\ reqs' = [reqs EXCEPT ![r] = IdleReq]
    /\ UNCHANGED <<cache, nextToken, revoked, stores>>

\* The six handlers that begin with the X-Token check.
ProtectedOps ==
    {"getDisconnect", "postUpload", "getShow", "getIndex", "putPublish",
     "putUnpublish"}

\* const token = req.headers['x-token']; if (!token) 401; then await get.
StartProtected(r, op, token) ==
    /\ reqs[r].pc = "idle"
    /\ LET rec == [IdleReq EXCEPT !.op = op, !.token = token,
                                  !.afterRevoke = token \in revoked]
       IN  IF token = NoToken
           THEN Respond(r, Unauthorized(rec))
           ELSE Continue(r, [rec EXCEPT !.pc = "get"])
    /\ UNCHANGED <<cache, nextToken, revoked, stores>>

\* getDisconnect without the check of userId: any token goes on to del.
getDisconnectGetUnchecked(r) ==
    /\ reqs[r].pc = "get"
    /\ reqs[r].op = "getDisconnect"
    /\ Continue(r, [reqs[r] EXCEPT
                      !.pc = "del",
                      !.userId = RedisGet(tokenKey(reqs[r].token))])
    /\ UNCHANGED <<cache, nextToken, revoked, stores>>

\* getDisconnect: userId = await redisClient.get(tokenKey); 401 when null.
getDisconnectGet(r) ==
    /\ reqs[r].pc = "get"
    /\ reqs[r].op = "getDisconnect"
    /\ LET userId == RedisGet(tokenKey(reqs[r].token))
       IN  IF userId = Null
           THEN Respond(r, Unauthorized(reqs[r]))
           ELSE Continue(r, [reqs[r] EXCEPT !.pc = "del", !.userId = userId])
    /\ UNCHANGED <<cache, nextToken, revoked, stores>>

\* getDisconnect: await redisClient.del(tokenKey); 204.
getDisconnectDel(r) ==
    /\ reqs[r].pc = "del"
    /\ cache' = RedisDel(tokenKey(reqs[r].token))
    /\ revoked' = revoked \cup {reqs[r].token}
    /\ Respond(r, [reqs[r] EXCEPT !.status = 204,
                                  !.effects = @ \cup {"cache"}])
    /\ UNCHANGED <<nextToken, stores>>

\* --------------------------------------------------------- FilesController
\* collection('files').findOne({ _id }): insertedId is the insertion rank.
findById(id) == IF id \in 1 .. Len(files) THEN files[id] ELSE NoFile
\* collection('files').findOne({ _id, userId })
findOwned(id, userId) ==
    IF findById(id) # NoFile /\ findById(id).userId = userId
    THEN findById(id) ELSE NoFile

\* postUpload: the checks of name, type and data, in the handler's order.
postUploadCheck(body) ==
    IF Falsy(body.name) THEN "Missing name"
    ELSE IF Falsy(body.type) \/ body.type \notin {"folder", "file", "image"}
         THEN "Missing type"
    ELSE IF NoDataGiven(body.data) /\ body.type # "folder" THEN "Missing data"
    ELSE ""

\* The parent check without the test of the parent's type.
parentCheckExistsOnly(parentFile) ==
    IF parentFile = NoFile THEN "Parent not found" ELSE ""
\* postUpload: the check of the parent document.
parentCheck(parentFile) ==
    IF parentFile = NoFile THEN "Parent not found"
    ELSE IF parentFile.type # "folder" THEN "Parent is not a folder"
    ELSE ""

\* fileDocument with localPath set before the folder branch is taken.
fileDocumentAlwaysPath(userId, body, localPath) ==
    [_id |-> 0, userId |-> userId, name |-> body.name, type |-> body.type,
     isPublic |-> body.isPublic,
     parentId |-> IF body.parentId # RootId THEN body.parentId ELSE RootId,
     localPath |-> IF body.type = "file" THEN localPath ELSE localPath + 1]
\* const fileDocument = { userId, name, type, isPublic, parentId }, with
\* fileDocument.localPath = localPath added for a file or an image.
fileDocument(userId, body, localPath) ==
    [_id |-> 0, userId |-> userId, name |-> body.name, type |-> body.type,
     isPublic |-> body.isPublic,
     parentId |-> IF body.parentId # RootId THEN ObjectId(body.parentId).id
                  ELSE RootId,
     localPath |-> IF body.type = "folder" THEN NoPath ELSE localPath]

\* Uploads past validation and not yet inserted.
InFlightUploads ==
    Cardinality({ q \in Reqs : /\ reqs[q].op = "postUpload"
                               /\ reqs[q].pc \in {"write", "insert"} })

\* The local path built from a fixed name in place of uuidv4().
postUploadProceedFixedName(r, rec) ==
    /\ Len(files) + InFlightUploads < MaxNodes
    /\ UNCHANGED nextPath
    /\ IF rec.body.type = "folder"
       THEN Continue(r, [rec EXCEPT !.pc = "insert"])
       ELSE Continue(r, [rec EXCEPT !.pc = "write", !.localPath = 1])

\* postUpload after the parent check: a folder goes to insertOne, a file or
\* an image gets its localPath (uuidv4) and goes to mkdir + writeFile.
postUploadProceed(r, rec) ==
    /\ Len(files) + InFlightUploads < MaxNodes
    /\ IF rec.body.type = "folder"
       THEN /\ Continue(r, [rec EXCEPT !.pc = "insert"])
            /\ UNCHANGED nextPath
       ELSE /\ nextPath < MaxNodes
            /\ nextPath' = nextPath + 1
            /\ Continue(r, [rec EXCEPT !.pc = "write",
                                       !.localPath = nextPath + 1])

\* postUpload without the check of userId after the cache lookup.
postUploadGetUnchecked(r, body) ==
    /\ reqs[r].pc = "get"
    /\ reqs[r].op = "postUpload"
    /\ LET userId == RedisGet(tokenKey(reqs[r].token))
           rec == [reqs[r] EXCEPT !.userId = userId, !.body = body]
       IN  IF postUploadCheck(body) # ""
           THEN Respond(r, BadRequest(rec, postUploadCheck(body)))
                  /\ UNCHANGED nextPath
           ELSE IF body.parentId # RootId /\ ~ObjectId(body.parentId).ok
           THEN Respond(r, Thrown(rec)) /\ UNCHANGED nextPath
           ELSE IF body.parentId # RootId
           THEN Continue(r, [rec EXCEPT !.pc = "parent"]) /\ UNCHANGED nextPath
           ELSE postUploadProceed(r, rec)
    /\ UNCHANGED <<cache, nextToken, revoked, files, blobs, queue>>

\* postUpload: the cache lookup, the body checks, and ObjectId(parentId).
postUploadGet(r, body) ==
    /\ reqs[r].pc = "get"
    /\ reqs[r].op = "postUpload"
    /\ LET userId == RedisGet(tokenKey(reqs[r].token))
           rec == [reqs[r] EXCEPT !.userId = userId, !.body = body]
       IN  IF userId = Null
           THEN Respond(r, Unauthorized(reqs[r])) /\ UNCHANGED nextPath
           ELSE IF postUploadCheck(body) # ""
           THEN Respond(r, BadRequest(rec, postUploadCheck(body)))
                  /\ UNCHANGED nextPath
           ELSE IF body.parentId # RootId /\ ~ObjectId(body.parentId).ok
           THEN Respond(r, Thrown(rec)) /\ UNCHANGED nextPath
           ELSE IF body.parentId # RootId
           THEN Continue(r, [rec EXCEPT !.pc = "parent"]) /\ UNCHANGED nextPath
           ELSE postUploadProceed(r, rec)
    /\ UNCHANGED <<cache, nextToken, revoked, files, blobs, queue>>

\* postUpload that inserts the document before it looks at the parent.
postUploadParentAfterInsert(r) ==
    /\ reqs[r].pc = "parent"
    /\ LET parentFile == findById(reqs[r].body.parentId)
           doc == [_id |-> Len(files) + 1, userId |-> reqs[r].userId,
                   name |-> reqs[r].body.name, type |-> reqs[r].body.type,
                   isPublic |-> reqs[r].body.isPublic, parentId |-> RootId,
                   localPath |-> NoPath]
       IN  /\ files' = Append(files, doc)
           /\ Respond(r, BadRequest([reqs[r] EXCEPT !.effects = @ \cup {"node"}],
                                    IF parentFile = NoFile
                                    THEN "Parent not found"
                                    ELSE "Parent is not a folder"))
    /\ UNCHANGED <<cache, nextToken, revoked, blobs, queue, nextPath>>

\* postUpload: parentFile = await findOne({ _id: ObjectId(parentId) }).
postUploadParent(r) ==
    /\ reqs[r].pc = "parent"
    /\ LET parentFile == findById(ObjectId(reqs[r].body.parentId).id)
       IN  IF parentCheck(parentFile) # ""
           THEN Respond(r, BadRequest(reqs[r], parentCheck(parentFile)))
                  /\ UNCHANGED nextPath
           ELSE postUploadProceed(r, reqs[r])
    /\ UNCHANGED <<cache, nextToken, revoked, files, blobs, queue>>

\* postUpload that goes on to insertOne without writing the file.
postUploadWriteSkipped(r) ==
    /\ reqs[r].pc = "write"
    /\ Continue(r, [reqs[r] EXCEPT !.pc = "insert"])
    /\ UNCHANGED <<cache, nextToken, revoked, stores>>

\* postUpload: await mkdir; await writeFile(localPath, Buffer.from(data)).
postUploadWrite(r) ==
    /\ reqs[r].pc = "write"
    /\ LET path == <<reqs[r].localPath, "">>
       IN  blobs' = [k \in DOMAIN blobs \cup {path} |->
                       IF k = path THEN Base64Decode(reqs[r].body.data.b64)
                       ELSE blobs[k]]
    /\ Continue(r, [reqs[r] EXCEPT !.pc = "insert",
                                   !.effects = @ \cup {"blob"}])
    /\ UNCHANGED <<cache, nextToken, revoked, files, queue, nextPath>>

\* postUpload: result = await insertOne(fileDocument).
postUploadInsert(r) ==
    /\ reqs[r].pc = "insert"
    /\ LET doc == [fileDocument(reqs[r].userId, reqs[r].body, reqs[r].localPath)
                     EXCEPT !._id = Len(files) + 1]
       IN  /\ files' = Append(files, doc)
           /\ Continue(r, [reqs[r] EXCEPT !.pc = "respond", !.node = doc,
                                          !.effects = @ \cup {"node"}])
    /\ UNCHANGED <<cache, nextToken, revoked, blobs, queue, nextPath>>

\* postUpload: insertOne rejects (the document store fails the write); the
\* handler throws at the await and does nothing more.
postUploadInsertFails(r) ==
    /\ reqs[r].pc = "insert"
    /\ Respond(r, Thrown(reqs[r]))
    /\ UNCHANGED <<cache, nextToken, revoked, stores>>

\* postUpload after insertOne that adds a job whatever the type.
postUploadRespondAnyType(r) ==
    /\ reqs[r].pc = "respond"
    /\ queue' = Append(queue, [userId |-> reqs[r].userId,
                               fileId |-> reqs[r].node._id])
    /\ Respond(r, [reqs[r] EXCEPT !.status = 201, !.effects = @ \cup {"job"}])
    /\ UNCHANGED <<cache, nextToken, revoked, files, blobs, nextPath>>

\* postUpload after insertOne: fileQueue.add for an image; 201 with the node.
postUploadRespond(r) ==
    /\ reqs[r].pc = "respond"
    /\ IF reqs[r].body.type = "image"
       THEN /\ queue' = Append(queue, [userId |-> reqs[r].userId,
                                      fileId |-> reqs[r].node._id])
            /\ Respond(r, [reqs[r] EXCEPT !.status = 201,
                                          !.effects = @ \cup {"job"}])
       ELSE /\ UNCHANGED queue
            /\ Respond(r, [reqs[r] EXCEPT !.status = 201])
    /\ UNCHANGED <<cache, nextToken, revoked, files, blobs, nextPath>>

\* getShow: the cache lookup, then ObjectId(fileId) for the query.
getShowGet(r, id) ==
    /\ reqs[r].pc = "get"
    /\ reqs[r].op = "getShow"
    /\ LET userId == RedisGet(tokenKey(reqs[r].token))
           rec == [reqs[r] EXCEPT !.userId = userId, !.id = id]
       IN  IF userId = Null THEN Respond(r, Unauthorized(reqs[r]))
           ELSE IF ~ObjectId(id).ok THEN Respond(r, Thrown(rec))
           ELSE Continue(r, [rec EXCEPT !.pc = "find"])
    /\ UNCHANGED <<cache, nextToken, revoked, stores>>

\* getShow: file = await findOne({ _id, userId }); 404 or 200 file.
getShowFind(r) ==
    /\ reqs[r].pc = "find"
    /\ reqs[r].op = "getShow"
    /\ LET file == findOwned(ObjectId(reqs[r].id).id, reqs[r].userId)
       IN  IF file = NoFile THEN Respond(r, NotFound(reqs[r]))
           ELSE Respond(r, [reqs[r] EXCEPT !.status = 200, !.node = file])
    /\ UNCHANGED <<cache, nextToken, revoked, stores>>

\* ObjectId(0): called with a number, ObjectId generates a new identifier
\* (the number is its timestamp); it is the identifier of no document.
GeneratedId == MaxNodes + 1

\* getIndex: parentId = req.query.parentId || 0, and in the $match
\* parentId === '0' ? 0 : ObjectId(parentId).  q.parentId = RootId is '0'.
matchParent(q) ==
    IF ~q.hasParent THEN [ok |-> TRUE, id |-> GeneratedId]
    ELSE IF q.parentId = RootId THEN [ok |-> TRUE, id |-> RootId]
    ELSE ObjectId(q.parentId)

\* The $match stage without userId: the nodes of every owner.
RECURSIVE matchingAnyOwner(_, _, _)
matchingAnyOwner(docs, parentId, userId) ==
    IF docs = <<>> THEN <<>>
    ELSE (IF Head(docs).parentId = parentId THEN <<Head(docs)>> ELSE <<>>)
           \o matchingAnyOwner(Tail(docs), parentId, userId)

\* The documents matching { parentId, userId }, in natural order.
RECURSIVE matching(_, _, _)
matching(docs, parentId, userId) ==
    IF docs = <<>> THEN <<>>
    ELSE (IF Head(docs).parentId = parentId /\ Head(docs).userId = userId
          THEN <<Head(docs)>> ELSE <<>>)
           \o matching(Tail(docs), parentId, userId)

\* The pipeline with { $limit: pageSize + 1 }.
pageOfOneMore(docs, page) ==
    SubSeq(docs, page * pageSize + 1,
           IF Len(docs) < (page + 1) * pageSize + 1 THEN Len(docs)
           ELSE (page + 1) * pageSize + 1)

\* { $skip: page * pageSize }, { $limit: pageSize }
pageOf(docs, page) ==
    SubSeq(docs, page * pageSize + 1,
           IF Len(docs) < (page + 1) * pageSize THEN Len(docs)
           ELSE (page + 1) * pageSize)

\* getIndex: the cache lookup, then the pipeline is built.
getIndexGet(r, q) ==
    /\ reqs[r].pc = "get"
    /\ reqs[r].op = "getIndex"
    /\ LET userId == RedisGet(tokenKey(reqs[r].token))
           rec == [reqs[r] EXCEPT !.userId = userId, !.query = q]
       IN  IF userId = Null THEN Respond(r, Unauthorized(reqs[r]))
           ELSE IF ~matchParent(q).ok THEN Respond(r, Thrown(rec))
           ELSE Continue(r, [rec EXCEPT !.pc = "find"])
    /\ UNCHANGED <<cache, nextToken, revoked, stores>>

\* getIndex: files = await aggregate([...]).toArray(); 200 files.
getIndexFind(r) ==
    /\ reqs[r].pc = "find"
    /\ reqs[r].op = "getIndex"
    /\ Respond(r, [reqs[r] EXCEPT
                     !.status = 200,
                     !.list = pageOf(matching(files, matchParent(reqs[r].query).id,
                                              reqs[r].userId),
                                     reqs[r].query.page)])
    /\ UNCHANGED <<cache, nextToken, revoked, stores>>

\* putPublish / putUnpublish acting for the owner of the node named, for
\* whatever token is presented.
setPublicGetAsOwner(r, id) ==
    /\ reqs[r].pc = "get"
    /\ reqs[r].op \in {"putPublish", "putUnpublish"}
    /\ LET rec == [reqs[r] EXCEPT !.userId = findById(id).userId, !.id = id]
       IN  IF rec.userId = Null THEN Respond(r, Unauthorized(reqs[r]))
           ELSE Continue(r, [rec EXCEPT !.pc = "find"])
    /\ UNCHANGED <<cache, nextToken, revoked, stores>>

\* putPublish / putUnpublish without the check of userId.
setPublicGetUnchecked(r, id) ==
    /\ reqs[r].pc = "get"
    /\ reqs[r].op \in {"putPublish", "putUnpublish"}
    /\ LET userId == RedisGet(tokenKey(reqs[r].token))
           rec == [reqs[r] EXCEPT !.userId = userId, !.id = id]
       IN  IF ~ObjectId(id).ok THEN Respond(r, Thrown(rec))
           ELSE Continue(r, [rec EXCEPT !.pc = "find"])
    /\ UNCHANGED <<cache, nextToken, revoked, stores>>

\* putPublish / putUnpublish: the cache lookup, then ObjectId(fileId).
setPublicGet(r, id) ==
    /\ reqs[r].pc = "get"
    /\ reqs[r].op \in {"putPublish", "putUnpublish"}
    /\ LET userId == RedisGet(tokenKey(reqs[r].token))
           rec == [reqs[r] EXCEPT !.userId = userId, !.id = id]
       IN  IF userId = Null THEN Respond(r, Unauthorized(reqs[r]))
           ELSE IF ~ObjectId(id).ok THEN Respond(r, Thrown(rec))
           ELSE Continue(r, [rec EXCEPT !.pc = "find"])
    /\ UNCHANGED <<cache, nextToken, revoked, stores>>

\* putPublish / putUnpublish: file = await findOne({ _id, userId }); 404.
setPublicFind(r) ==
    /\ reqs[r].pc = "find"
    /\ reqs[r].op \in {"putPublish", "putUnpublish"}
    /\ IF findOwned(ObjectId(reqs[r].id).id, reqs[r].userId) = NoFile
       THEN Respond(r, NotFound(reqs[r]))
       ELSE Continue(r, [reqs[r] EXCEPT !.pc = "update"])
    /\ UNCHANGED <<cache, nextToken, revoked, stores>>

\* The update that a node already made public refuses (first write wins).
updateOneIfPrivate(id, userId, isPublic) ==
    [i \in 1 .. Len(files) |->
        IF files[i]._id = id /\ files[i].userId = userId /\ ~files[i].isPublic
        THEN [files[i] EXCEPT !.isPublic = isPublic] ELSE files[i]]
\* The update with the filter { userId } alone: every node of the user.
updateOneAllOfUser(id, userId, isPublic) ==
    [i \in 1 .. Len(files) |->
        IF files[i].userId = userId
        THEN [files[i] EXCEPT !.isPublic = isPublic] ELSE files[i]]
\* updateOne({ _id, userId }, { $set: { isPublic } })
updateOne(id, userId, isPublic) ==
    [i \in 1 .. Len(files) |->
        IF files[i]._id = id /\ files[i].userId = userId
        THEN [files[i] EXCEPT !.isPublic = isPublic] ELSE files[i]]

\* putPublish / putUnpublish: await updateOne(...).
setPublicUpdate(r) ==
    /\ reqs[r].pc = "update"
    /\ files' = updateOne(ObjectId(reqs[r].id).id, reqs[r].userId,
                          reqs[r].op = "putPublish")
    /\ Continue(r, [reqs[r] EXCEPT !.pc = "refind",
                                   !.effects = @ \cup {"isPublic"}])
    /\ UNCHANGED <<cache, nextToken, revoked, blobs, queue, nextPath>>

\* The answer built from the request's own value, without the second read.
setPublicRefindOwnValue(r) ==
    /\ reqs[r].pc = "refind"
    /\ Respond(r, [reqs[r] EXCEPT
                     !.status = 200,
                     !.node = [findById(ObjectId(reqs[r].id).id) EXCEPT
                                 !.isPublic = (reqs[r].op = "putPublish")]])
    /\ UNCHANGED <<cache, nextToken, revoked, stores>>

\* putPublish / putUnpublish: updatedFile = await findOne({ _id }); 200.
setPublicRefind(r) ==
    /\ reqs[r].pc = "refind"
    /\ Respond(r, [reqs[r] EXCEPT !.status = 200,
                                  !.node = findById(ObjectId(reqs[r].id).id)])
    /\ UNCHANGED <<cache, nextToken, revoked, stores>>

\* getFile: ObjectId(fileId) for the first query.
getFile(r, id) ==
    /\ reqs[r].pc = "idle"
    /\ LET rec == [IdleReq EXCEPT !.op = "getFile", !.id = id]
       IN  IF ~ObjectId(id).ok THEN Respond(r, Thrown(rec))
           ELSE Continue(r, [rec EXCEPT !.pc = "find"])
    /\ UNCHANGED <<cache, nextToken, revoked, stores>>

\* The two checks in the other order: the folder check first.
getFileCheckFolderFirst(r, rec) ==
    IF rec.file.type = "folder"
    THEN Respond(r, BadRequest(rec, "A folder doesn't have content"))
    ELSE IF ~rec.file.isPublic
              /\ (rec.userId = Null \/ rec.userId # rec.file.userId)
    THEN Respond(r, NotFound(rec))
    ELSE Continue(r, [rec EXCEPT !.pc = "read"])

\* The visibility check that only asks for some valid session.
getFileCheckAnyUser(r, rec) ==
    IF ~rec.file.isPublic /\ rec.userId = Null
    THEN Respond(r, NotFound(rec))
    ELSE IF rec.file.type = "folder"
    THEN Respond(r, BadRequest(rec, "A folder doesn't have content"))
    ELSE Continue(r, [rec EXCEPT !.pc = "read"])

\* getFile: the visibility check, then the folder check.
getFileCheck(r, rec) ==
    IF ~rec.file.isPublic /\ (rec.userId = Null \/ rec.userId # rec.file.userId)
    THEN Respond(r, NotFound(rec))
    ELSE IF rec.file.type = "folder"
    THEN Respond(r, BadRequest(rec, "A folder doesn't have content"))
    ELSE Continue(r, [rec EXCEPT !.pc = "read"])

\* getFile: file = await findOne({ _id }); 404; then userId = token ? await
\* redisClient.get(...) : null.
getFileFind(r, token) ==
    /\ reqs[r].pc = "find"
    /\ reqs[r].op = "getFile"
    /\ LET file == findById(ObjectId(reqs[r].id).id)
           rec == [reqs[r] EXCEPT !.file = file, !.token = token]
       IN  IF file = NoFile THEN Respond(r, NotFound(reqs[r]))
           ELSE IF token # NoToken THEN Continue(r, [rec EXCEPT !.pc = "auth"])
           ELSE getFileCheck(r, rec)
    /\ UNCHANGED <<cache, nextToken, revoked, stores>>

\* getFile: userId = await redisClient.get(`auth_${token}`).
getFileAuth(r) ==
    /\ reqs[r].pc = "auth"
    /\ getFileCheck(r, [reqs[r] EXCEPT
                          !.userId = RedisGet(tokenKey(reqs[r].token))])
    /\ UNCHANGED <<cache, nextToken, revoked, stores>>

\* The path of the original whatever size is asked for.
filePathIgnoresSize(localPath, size) == <<localPath, "">>
\* size && ['100', '250', '500'].includes(size) ? `${localPath}_${size}`
filePath(localPath, size) ==
    IF size \in {"100", "250", "500"}
    THEN <<localPath, size>> ELSE <<localPath, "">>

\* getFile: fileData = await readFile(filePath); 200 fileData, or 404.
getFileRead(r, size) ==
    /\ reqs[r].pc = "read"
    /\ LET path == filePath(reqs[r].file.localPath, size)
           rec == [reqs[r] EXCEPT !.size = size]
       IN  IF path \in DOMAIN blobs
           THEN Respond(r, [rec EXCEPT !.status = 200, !.bytes = blobs[path]])
           ELSE Respond(r, NotFound(rec))
    /\ UNCHANGED <<cache, nextToken, revoked, stores>>

\* ------------------------------------------------------------ input spaces
\* req.query of GET /files: no parentId, '0', an identifier, 'invalid-id'.
Queries ==
    {NoQuery}
      \cup [hasParent : {TRUE}, parentId : {RootId, 1, BadId}, page : {0, 1}]
\* req.query.size: absent, a thumbnail width, something else.
Sizes == {"", "100", "999"}

\* One step of the handler serving request r.
Handler(r) ==
    \/ \E h \in Headers : getConnect(r, h)
    \/ getConnectSet(r)
    \/ getConnectExpire(r)
    \/ getConnectExpireLost(r)
    \/ \E op \in ProtectedOps, t \in PresentedTokens : StartProtected(r, op, t)
    \/ getDisconnectGet(r)
    \/ getDisconnectDel(r)
    \/ \E body \in Bodies : postUploadGet(r, body)
    \/ postUploadParent(r)
    \/ postUploadWrite(r)
    \/ postUploadInsert(r)
    \/ postUploadRespond(r)
    \/ \E id \in PresentedIds : getShowGet(r, id)
    \/ getShowFind(r)
    \/ \E q \in Queries : getIndexGet(r, q)
    \/ getIndexFind(r)
    \/ \E id \in PresentedIds : setPublicGet(r, id)
    \/ setPublicFind(r)
    \/ setPublicUpdate(r)
    \/ setPublicRefind(r)
    \/ \E id \in PresentedIds : getFile(r, id)
    \/ \E t \in PresentedTokens : getFileFind(r, t)
    \/ getFileAuth(r)
    \/ \E size \in Sizes : getFileRead(r, size)
    \/ Finish(r)

\* Requests are served one at a time.
Next ==
    \/ Handler("r1")
    \/ \E t \in TokenIds : TTLElapse(tokenKey(t))

Spec == Init /\ [][Next]_vars

\* ------------------------------------------------- concurrent requests
\* Two handlers in flight at once, their steps interleaved at the awaits.
\* Inputs are narrowed to what the races need: two users who log in, uploads
\* of a file, an image and a folder to the root and of a file to folder 1,
\* and toggles of node 1.
ConcHeaders ==
    { [scheme |-> "Basic", cred |-> <<"a@x", Colon, "pa">>],
      [scheme |-> "Basic", cred |-> <<"b@x", Colon, "pb">>] }
ConcBodies ==
    { [name |-> "a.txt", type |-> "file", parentId |-> RootId,
       isPublic |-> FALSE, data |-> DataHi],
      [name |-> "a.txt", type |-> "image", parentId |-> RootId,
       isPublic |-> FALSE, data |-> DataZero],
      [name |-> "a.txt", type |-> "folder", parentId |-> RootId,
       isPublic |-> FALSE, data |-> NoData],
      [name |-> "a.txt", type |-> "file", parentId |-> 1,
       isPublic |-> FALSE, data |-> DataZero] }
ConcOps == {"postUpload", "putPublish", "putUnpublish"}

HandlerConc(r) ==
    \/ \E h \in ConcHeaders : getConnect(r, h)
    \/ getConnectSet(r)
    \/ getConnectExpire(r)
    \/ \E op \in ConcOps, t \in TokenIds : StartProtected(r, op, t)
    \/ \E body \in ConcBodies : postUploadGet(r, body)
    \/ postUploadParent(r)
    \/ postUploadWrite(r)
    \/ postUploadInsert(r)
    \/ postUploadRespond(r)
    \/ setPublicGet(r, 1)
    \/ setPublicFind(r)
    \/ setPublicUpdate(r)
    \/ setPublicRefind(r)
    \/ Finish(r)

NextConc == \E r \in Reqs : HandlerConc(r)

SpecConc == Init /\ [][NextConc]_vars

\* ------------------------------------------------------ listing by pages
\* A files collection after n uploads of folders by the two users: every
\* third node is of u2 when byOther, every fifth lies in folder 1 when nested.
Dataset(n, byOther, nested) ==
    [i \in 1 .. n |->
        [_id |-> i,
         userId |-> IF byOther /\ i % 3 = 0 THEN "u2" ELSE "u1",
         name |-> "a.txt", type |-> "folder", isPublic |-> FALSE,
         parentId |-> IF nested /\ i % 5 = 0 THEN 1 ELSE RootId,
         localPath |-> NoPath]]
\* req.query of the listings: parentId '0' or the folder 1, page 0..MaxPage.
PageQueries ==
    [hasParent : {TRUE}, parentId : {RootId, 1}, page : 0 .. MaxPage]

\* The server with u1 logged in (token 1) and a collection already stored.
InitPages ==
    /\ cache = [k \in {tokenKey(1)} |-> [val |-> "u1", ttl |-> SessionTTL]]
    /\ \E n \in 0 .. MaxDocs, byOther \in BOOLEAN, nested \in BOOLEAN :
          files = Dataset(n, byOther, nested)
    /\ blobs = << >>
    /\ queue = << >>
    /\ nextToken = 1
    /\ nextPath = 0
    /\ reqs = [r \in Reqs |-> IdleReq]
    /\ revoked = {}

NextPages ==
    \/ StartProtected("r1", "getIndex", 1)
    \/ \E q \in PageQueries : getIndexGet("r1", q)
    \/ getIndexFind("r1")
    \/ Finish("r1")

SpecPages == InitPages /\ [][NextPages]_vars

\* ------------------------------------------------- upload, then download
\* The byte values the payloads are made of, and the payloads.
Bytes == {0, 104, 255}
Payloads == UNION { [1 .. n -> Bytes] : n \in 0 .. MaxLen }
\* The client's base64 encoding of a payload (data: 'SGVsbG8gd29ybGQ='):
\* three bytes give four sextets, a last group of one or two bytes is padded.
RECURSIVE Base64Encode(_)
Base64Encode(b) ==
    IF b = <<>> THEN <<>>
    ELSE IF Len(b) = 1
    THEN <<b[1] \div 4, (b[1] % 4) * 16, Pad, Pad>>
    ELSE IF Len(b) = 2
    THEN <<b[1] \div 4, (b[1] % 4) * 16 + (b[2] \div 16), (b[2] % 16) * 4, Pad>>
    ELSE <<b[1] \div 4, (b[1] % 4) * 16 + (b[2] \div 16),
           (b[2] % 16) * 4 + (b[3] \div 64), b[3] % 64>>
           \o Base64Encode(SubSeq(b, 4, Len(b)))
\* req.body of the upload of a payload as a file to the root.
PayloadBody(p) ==
    [name |-> "a.txt", type |-> "file", parentId |-> RootId,
     isPublic |-> FALSE, data |-> [given |-> TRUE, b64 |-> Base64Encode(p)]]

\* A user logs in, uploads payloads as files and reads files back.
NextRoundTrip ==
    \/ getConnect("r1", [scheme |-> "Basic", cred |-> <<"a@x", Colon, "pa">>])
    \/ getConnectSet("r1")
    \/ getConnectExpire("r1")
    \/ \E t \in TokenIds : StartProtected("r1", "postUpload", t)
    \/ \E p \in Payloads : postUploadGet("r1", PayloadBody(p))
    \/ postUploadWrite("r1")
    \/ postUploadInsert("r1")
    \/ postUploadRespond("r1")
    \/ \E id \in NodeIds : getFile("r1", id)
    \/ \E t \in TokenIds : getFileFind("r1", t)
    \/ getFileAuth("r1")
    \/ getFileRead("r1", "")
    \/ Finish("r1")

SpecRoundTrip == Init /\ [][NextRoundTrip]_vars

\* ------------------------------------------- uploads with a failing store
\* One client logs in and uploads; insertOne may reject.
NextUpload ==
    \/ \E h \in ConcHeaders : getConnect("r1", h)
    \/ getConnectSet("r1")
    \/ getConnectExpire("r1")
    \/ \E t \in PresentedTokens : StartProtected("r1", "postUpload", t)
    \/ \E body \in Bodies : postUploadGet("r1", body)
    \/ postUploadParent("r1")
    \/ postUploadWrite("r1")
    \/ postUploadInsert("r1")
    \/ postUploadInsertFails("r1")
    \/ postUploadRespond("r1")
    \/ Finish("r1")

SpecUpload == Init /\ [][NextUpload]_vars

\* ------------------------------------------------------------ thumbnails
\* The sizes a client may ask for: none, the three widths, another value.
ThumbSizes == {"100", "250", "500"}
AskedSizes == {"", "999"} \cup ThumbSizes
\* req.body of the upload of an image to the root, public or private.
ImageBodies ==
    [name : {"a.txt"}, type : {"image"}, parentId : {RootId},
     isPublic : BOOLEAN, data : {DataHi, DataZero}]
\* The rendering of an image: some bytes other than the original's.
Thumbnail(bytes) == <<1>> \o bytes
\* The external worker takes the oldest job and writes one size variant of
\* the image as the sibling file localPath_<size>.
workerWrite(size) ==
    /\ queue # << >>
    /\ LET path == <<files[Head(queue).fileId].localPath, size>>
           original == <<files[Head(queue).fileId].localPath, "">>
       IN  /\ path \notin DOMAIN blobs
           /\ blobs' = [k \in DOMAIN blobs \cup {path} |->
                          IF k = path THEN Thumbnail(blobs[original])
                          ELSE blobs[k]]
    /\ UNCHANGED <<cache, nextToken, revoked, files, queue, nextPath, reqs>>
\* The worker has written every variant of the oldest job: the job is done.
workerDone ==
    /\ queue # << >>
    /\ \A size \in ThumbSizes :
          <<files[Head(queue).fileId].localPath, size>> \in DOMAIN blobs
    /\ queue' = Tail(queue)
    /\ UNCHANGED <<cache, nextToken, revoked, files, blobs, nextPath, reqs>>

\* One client logs in, uploads images and reads them, while the worker runs.
NextThumb ==
    \/ \E h \in ConcHeaders : getConnect("r1", h)
    \/ getConnectSet("r1")
    \/ getConnectExpire("r1")
    \/ \E t \in TokenIds : StartProtected("r1", "postUpload", t)
    \/ \E body \in ImageBodies : postUploadGet("r1", body)
    \/ postUploadWrite("r1")
    \/ postUploadInsert("r1")
    \/ postUploadRespond("r1")
    \/ \E id \in NodeIds : getFile("r1", id)
    \/ \E t \in PresentedTokens : getFileFind("r1", t)
    \/ getFileAuth("r1")
    \/ \E size \in AskedSizes : getFileRead("r1", size)
    \/ Finish("r1")
    \/ \E size \in ThumbSizes : workerWrite(size)
    \/ workerDone

SpecThumb == Init /\ [][NextThumb]_vars

\* ------------------------------------------------ revoke during requests
\* Two handlers in flight: a user logs in, uploads an image, publishes
\* node 1 and logs out, in any interleaving.
RevokeOps == {"postUpload", "putPublish", "getDisconnect"}
RevokeBody ==
    [name |-> "a.txt", type |-> "image", parentId |-> RootId,
     isPublic |-> FALSE, data |-> DataZero]

HandlerRevoke(r) ==
    \/ getConnect(r, [scheme |-> "Basic", cred |-> <<"a@x", Colon, "pa">>])
    \/ getConnectSet(r)
    \/ getConnectExpire(r)
    \/ \E op \in RevokeOps, t \in TokenIds : StartProtected(r, op, t)
    \/ getDisconnectGet(r)
    \/ getDisconnectDel(r)
    \/ postUploadGet(r, RevokeBody)
    \/ postUploadWrite(r)
    \/ postUploadInsert(r)
    \/ postUploadRespond(r)
    \/ setPublicGet(r, 1)
    \/ setPublicFind(r)
    \/ setPublicUpdate(r)
    \/ setPublicRefind(r)
    \/ Finish(r)

NextRevoke == \E r \in Reqs : HandlerRevoke(r)

SpecRevoke == Init /\ [][NextRevoke]_vars

\* =================================================================== claims
\* r has just been answered: this step sends its response.
Answers(r) == reqs[r].pc # "done" /\ reqs'[r].pc = "done"

\* C1: once getDisconnect has answered 204 for a token, the key auth_<token>
\* is gone from the cache store, and every token-protected request that
\* starts afterwards with that token is answered 401 Unauthorized.
C1_RevokedTokenIsRejected ==
    /\ \A t \in revoked : tokenKey(t) \notin DOMAIN cache
    /\ \A r \in Reqs :
          (reqs[r].pc = "done" /\ reqs[r].op \in ProtectedOps
             /\ reqs[r].afterRevoke)
            => (reqs[r].status = 401 /\ reqs[r].error = "Unauthorized")
\* A file request that started after the revoke of its token got 401.
C1_Witness ==
    \E r \in Reqs :
        /\ reqs[r].pc = "done" /\ reqs[r].op = "postUpload"
        /\ reqs[r].afterRevoke /\ reqs[r].token \in revoked
        /\ reqs[r].status = 401

\* C2 as stated: getDisconnect with a token that is absent from the cache
\* store, or already revoked, is not an error: it is not answered 401.
C2_RevokeNeverErrors ==
    \A r \in Reqs :
        (reqs[r].pc = "done" /\ reqs[r].op = "getDisconnect"
           /\ reqs[r].token # NoToken)
          => reqs[r].status = 204
\* C2 amended: getDisconnect with a token whose key is absent from the cache
\* store (never issued, expired or already revoked) is answered 401 and has
\* written nothing; only the delete of the cache store is idempotent:
\* deleting an absent key changes nothing.
C2_SecondRevokeIs401 ==
    /\ \A r \in Reqs :
          (reqs[r].pc = "done" /\ reqs[r].op = "getDisconnect"
             /\ (reqs[r].afterRevoke \/ reqs[r].userId = Null))
            => (reqs[r].status = 401 /\ reqs[r].effects = {})
    /\ \A t \in TokenIds :
          tokenKey(t) \notin DOMAIN cache => RedisDel(tokenKey(t)) = cache
\* A second getDisconnect of a token already revoked was answered 401.
C2_Witness ==
    \E r \in Reqs :
        /\ reqs[r].pc = "done" /\ reqs[r].op = "getDisconnect"
        /\ reqs[r].token \in revoked /\ reqs[r].afterRevoke
        /\ reqs[r].status = 401

\* The credentials of header h are those of user u: email and digest match.
C3_Matches(h, u) ==
    /\ h.scheme = "Basic"
    /\ Len(split(h.cred)) >= 2
    /\ u.email = split(h.cred)[1]
    /\ u.password = sha1(split(h.cred)[2])
\* C3: a key auth_<token> enters the cache store, or gets its value, only
\* by a step of a getConnect whose email and password digest match a stored
\* user, and the value is that user's identifier; a getConnect whose header
\* is missing or malformed, lacks the email or the password, or matches no
\* user is answered 401 and has written nothing.
C3_SessionsComeFromMatchingLogin ==
    [][ /\ \A t \in TokenIds :
             (/\ tokenKey(t) \in DOMAIN cache'
              /\ \/ tokenKey(t) \notin DOMAIN cache
                 \/ cache'[tokenKey(t)].val # cache[tokenKey(t)].val)
               => \E r \in Reqs, u \in users :
                     /\ reqs[r].op = "getConnect"
                     /\ reqs[r].outToken = t
                     /\ C3_Matches(reqs[r].header, u)
                     /\ cache'[tokenKey(t)].val = u._id
        /\ \A r \in Reqs :
             (Answers(r) /\ reqs'[r].op = "getConnect"
                /\ ~ \E u \in users : C3_Matches(reqs'[r].header, u))
               => /\ reqs'[r].status = 401
                  /\ reqs'[r].effects = {}
                  /\ UNCHANGED cache ]_vars
\* A session entry exists, and a login with a wrong password got 401.
C3_Witness ==
    /\ \E t \in TokenIds : tokenKey(t) \in DOMAIN cache
    /\ \E r \in Reqs :
          /\ reqs[r].pc = "done" /\ reqs[r].op = "getConnect"
          /\ reqs[r].header.cred = <<"a@x", Colon, "pb">>
          /\ reqs[r].status = 401

\* C4 as stated: every session key in the cache store has the time-to-live
\* of 86400 seconds, in every state.
C4_EverySessionKeyExpires ==
    \A k \in DOMAIN cache : cache[k].ttl = SessionTTL

\* C5: a token-protected request without X-Token, or whose key auth_<token>
\* is not in the cache store when the handler looks it up, is answered 401
\* by that very step, and neither that step nor an earlier step of the
\* request changed the document store, the blob store, the work queue or
\* the cache store.
C5_UnauthorizedChangesNothing ==
    [][ \A r \in Reqs :
          (/\ reqs'[r] # reqs[r]
           /\ reqs'[r].op \in ProtectedOps
           /\ \/ reqs[r].pc = "idle" /\ reqs'[r].token = NoToken
              \/ /\ reqs[r].pc = "get"
                 /\ tokenKey(reqs[r].token) \notin DOMAIN cache)
            => /\ reqs'[r].pc = "done"
               /\ reqs'[r].status = 401
               /\ reqs'[r].error = "Unauthorized"
               /\ reqs'[r].effects = {}
               /\ UNCHANGED <<cache, files, blobs, queue>> ]_vars
\* A publish request with an expired or unknown token got 401.
C5_Witness ==
    \E r \in Reqs :
        /\ reqs[r].pc = "done" /\ reqs[r].op = "putPublish"
        /\ reqs[r].token # NoToken
        /\ tokenKey(reqs[r].token) \notin DOMAIN cache
        /\ reqs[r].token \notin revoked
        /\ nextToken >= reqs[r].token
        /\ reqs[r].status = 401

\* The body passes the checks of name, type and data.
C6_BodyAccepted(body) ==
    /\ body.name \notin {Undefined, ""}
    /\ body.type \in {"folder", "file", "image"}
    /\ body.type = "folder" \/ (body.data.given /\ body.data.b64 # <<>>)
\* Every stored parentId is the root sentinel or names a stored folder.
C6_HierarchyIntegrity ==
    \A i \in 1 .. Len(files) :
        \/ files[i].parentId = RootId
        \/ /\ files[i].parentId \in 1 .. Len(files)
           /\ files[files[i].parentId].type = "folder"
C7_BadRequestCreatesNothing ==
    [][ \A r \in Reqs :
          (Answers(r) /\ reqs'[r].op = "postUpload" /\ reqs'[r].status = 400)
            => /\ reqs'[r].error \in
                    {"Missing name", "Missing type", "Missing data",
                     "Parent not found", "Parent is not a folder"}
               /\ reqs'[r].effects = {}
               /\ UNCHANGED <<files, blobs, queue>> ]_vars
\* An upload under a parent that does not exist was answered 400.
C7_Witness ==
    \E r \in Reqs :
        /\ reqs[r].pc = "done" /\ reqs[r].op = "postUpload"
        /\ reqs[r].status = 400 /\ reqs[r].error = "Parent not found"
        /\ reqs[r].body.type = "file"

\* C8: a stored node has a localPath exactly when its type is file or image.
C8_LocalPathIffNotFolder ==
    \A i \in 1 .. Len(files) :
        (files[i].localPath # NoPath) <=> (files[i].type \in {"file", "image"})
\* The store holds a folder node and an image node.
C8_Witness ==
    \E i, j \in 1 .. Len(files) :
        files[i].type = "folder" /\ files[j].type = "image"

\* C9 as stated: for a valid requester, getShow, putPublish and putUnpublish
\* answer 404 'Not found' for an identifier of a node of another user and
\* for an identifier of no node alike, and write nothing.
C9_ForeignLooksAbsent ==
    \A r \in Reqs :
        (/\ reqs[r].pc = "done"
         /\ reqs[r].op \in {"getShow", "putPublish", "putUnpublish"}
         /\ reqs[r].userId # Null
         /\ \/ reqs[r].id \notin 1 .. Len(files)
            \/ files[reqs[r].id].userId # reqs[r].userId)
          => /\ reqs[r].status = 404
             /\ reqs[r].error = "Not found"
             /\ reqs[r].effects = {}

\* C10 as stated: getFile on a private file or image node gives the content
\* only to a token that resolves to the owner and 404 to anyone else; on a
\* public one it gives 200 with the content to a request without token.
C10_PublicReadableByAnyone ==
    \A r \in Reqs :
        (/\ reqs[r].pc = "done" /\ reqs[r].op = "getFile"
         /\ reqs[r].file.type \in {"file", "image"})
          => IF reqs[r].file.isPublic
             THEN reqs[r].token = NoToken
                    => /\ reqs[r].status = 200
                       /\ reqs[r].bytes = blobs[<<reqs[r].file.localPath, "">>]
             ELSE /\ reqs[r].status = 200 => reqs[r].userId = reqs[r].file.userId
                  /\ reqs[r].userId # reqs[r].file.userId
                       => reqs[r].status = 404
\* C10 amended: as stated, with the request on the public node carrying no
\* size parameter (a size of 100, 250 or 500 asks for a thumbnail file).
C10_PublicReadableWithoutSize ==
    \A r \in Reqs :
        (/\ reqs[r].pc = "done" /\ reqs[r].op = "getFile"
         /\ reqs[r].file.type \in {"file", "image"})
          => IF reqs[r].file.isPublic
             THEN (reqs[r].token = NoToken /\ reqs[r].size = "")
                    => /\ reqs[r].status = 200
                       /\ reqs[r].bytes = blobs[<<reqs[r].file.localPath, "">>]
             ELSE /\ reqs[r].status = 200 => reqs[r].userId = reqs[r].file.userId
                  /\ reqs[r].userId # reqs[r].file.userId
                       => (reqs[r].status = 404 /\ reqs[r].error = "Not found")
\* An image published by its owner was read without a token.
C10_Witness ==
    \E r \in Reqs :
        /\ reqs[r].pc = "done" /\ reqs[r].op = "getFile"
        /\ reqs[r].token = NoToken /\ reqs[r].size = ""
        /\ reqs[r].file.type = "image" /\ reqs[r].file.isPublic
        /\ reqs[r].status = 200 /\ reqs[r].bytes = <<0>>

\* C11 as stated: putPublish is answered 200 with a node whose isPublic is
\* true and putUnpublish 200 with a node whose isPublic is false, in every
\* execution, concurrent toggles of the same node included.
C11_ToggleReturnsOwnValue ==
    \A r \in Reqs :
        (/\ reqs[r].pc = "done"
         /\ reqs[r].op \in {"putPublish", "putUnpublish"}
         /\ reqs[r].effects # {})
          => /\ reqs[r].status = 200
             /\ reqs[r].node.isPublic = (reqs[r].op = "putPublish")
\* C11 amended: the update of putPublish stores isPublic true and that of
\* putUnpublish false, and the request is answered 200 with the node as the
\* store holds it when it is read again after the update: its isPublic is
\* the requested value unless the update of another request on the same node
\* was applied in between.
C11_ToggleReturnsNodeAsReread ==
    [][ \A r \in Reqs :
          /\ (reqs[r].pc = "update" /\ reqs'[r].pc = "refind")
               => /\ files'[reqs[r].id].isPublic = (reqs[r].op = "putPublish")
                  /\ files'[reqs[r].id].userId = reqs[r].userId
          /\ (reqs[r].pc = "refind" /\ reqs'[r].pc = "done")
               => /\ reqs'[r].status = 200
                  /\ reqs'[r].node = files[reqs[r].id]
                  /\ reqs'[r].node.userId = reqs[r].userId
      ]_vars
\* A putPublish was answered with isPublic false: a putUnpublish of the same
\* node was applied between its update and its second read.
C11_Witness ==
    \E r \in Reqs :
        /\ reqs[r].pc = "done" /\ reqs[r].op = "putPublish"
        /\ reqs[r].status = 200 /\ reqs[r].node._id = 1
        /\ ~reqs[r].node.isPublic

\* C12: no step removes a node or changes a stored node's owner, name, type,
\* parentId, localPath or identifier; isPublic of a node changes only in the
\* update step of a putPublish or putUnpublish of its owner aimed at that
\* node, and that step changes no other node.
C12_OnlyIsPublicChanges ==
    [][ /\ Len(files') >= Len(files)
        /\ \A i \in 1 .. Len(files) :
              /\ [files'[i] EXCEPT !.isPublic = files[i].isPublic] = files[i]
              /\ files'[i].isPublic # files[i].isPublic
                   => \E r \in Reqs :
                         /\ reqs[r].op \in {"putPublish", "putUnpublish"}
                         /\ reqs[r].pc = "update" /\ reqs'[r].pc = "refind"
                         /\ reqs[r].id = i
                         /\ reqs[r].userId = files[i].userId
                         /\ files'[i].isPublic = (reqs[r].op = "putPublish")
      ]_vars
\* A putPublish has changed one of two nodes of the same owner.
C12_Witness ==
    /\ Len(files) = 2
    /\ files[1].userId = files[2].userId
    /\ files[1].isPublic # files[2].isPublic
    /\ \E r \in Reqs :
          /\ reqs[r].pc = "done" /\ reqs[r].op = "putPublish"
          /\ reqs[r].status = 200 /\ "isPublic" \in reqs[r].effects

\* C13: every node in a 200 answer of getIndex is a stored node whose owner
\* is the user the token resolved to and whose parentId is the parentId the
\* request asked for (the root when it named none).
C13_IndexOnlyOwnAndParent ==
    \A r \in Reqs :
        (reqs[r].pc = "done" /\ reqs[r].op = "getIndex" /\ reqs[r].status = 200)
          => /\ reqs[r].userId \in UserIds
             /\ \A k \in 1 .. Len(reqs[r].list) :
                   /\ reqs[r].list[k]._id \in 1 .. Len(files)
                   /\ files[reqs[r].list[k]._id] = reqs[r].list[k]
                   /\ reqs[r].list[k].userId = reqs[r].userId
                   /\ reqs[r].list[k].parentId =
                        (IF reqs[r].query.hasParent
                         THEN reqs[r].query.parentId ELSE RootId)
\* getIndex answered with one node while the store holds a node of another
\* owner under the same parent.
C13_Witness ==
    \E r \in Reqs :
        /\ reqs[r].pc = "done" /\ reqs[r].op = "getIndex"
        /\ reqs[r].status = 200 /\ Len(reqs[r].list) = 1
        /\ \E i \in 1 .. Len(files) :
              /\ files[i].userId # reqs[r].userId
              /\ files[i].parentId = reqs[r].list[1].parentId

\* The positions in the store of the nodes of owner u under parent p.
C14_Hits(p, u) ==
    { i \in 1 .. Len(files) : files[i].parentId = p /\ files[i].userId = u }
\* The position in the store of the n-th node of owner u under parent p.
C14_NthHit(n, p, u) ==
    CHOOSE i \in C14_Hits(p, u) :
        Cardinality({ j \in C14_Hits(p, u) : j <= i }) = n
C15_Wrote(r) ==
    /\ reqs[r].op = "postUpload"
    /\ reqs[r].body.type \in {"file", "image"}
    /\ \/ reqs[r].pc \in {"insert", "respond"}
       \/ reqs[r].pc = "done" /\ reqs[r].status = 201
\* The upload r has inserted its node.
C15_Inserted(r) ==
    /\ reqs[r].op = "postUpload"
    /\ \/ reqs[r].pc = "respond"
       \/ reqs[r].pc = "done" /\ reqs[r].status = 201
\* C15: under any interleaving of uploads, stored nodes have pairwise
\* distinct identifiers, file and image nodes pairwise distinct localPaths;
\* every upload that reached persistence has its own node in the store, and
\* the blob at its localPath holds the bytes of its own data.
C15_UploadsNeverCollide ==
    /\ \A i, j \in 1 .. Len(files) :
          i # j => /\ files[i]._id # files[j]._id
                   /\ (files[i].type # "folder" /\ files[j].type # "folder")
                        => files[i].localPath # files[j].localPath
    /\ \A r \in Reqs :
          /\ C15_Wrote(r)
               => /\ <<reqs[r].localPath, "">> \in DOMAIN blobs
                  /\ blobs[<<reqs[r].localPath, "">>]
                       = Base64Decode(reqs[r].body.data.b64)
          /\ C15_Inserted(r)
               => /\ reqs[r].node._id \in 1 .. Len(files)
                  /\ [files[reqs[r].node._id] EXCEPT !.isPublic = FALSE]
                       = reqs[r].node
                  /\ reqs[r].node.localPath = reqs[r].localPath
                  /\ reqs[r].node.userId = reqs[r].userId
                  /\ \A q \in Reqs \ {r} :
                        C15_Inserted(q) => reqs[q].node._id # reqs[r].node._id
\* Two uploads with different bytes were in flight together: the one that
\* inserted its node second was answered first.
C15_Witness ==
    \E r, q \in Reqs :
        /\ r # q
        /\ reqs[r].pc = "done" /\ reqs[r].op = "postUpload"
        /\ reqs[r].status = 201 /\ reqs[r].node._id = 2
        /\ reqs[q].pc = "respond" /\ reqs[q].node._id = 1
        /\ reqs[r].body.type = "file" /\ reqs[q].body.type = "image"
        /\ reqs[r].body.data # reqs[q].body.data

\* C16 as stated: for every payload, the upload of its base64 encoding as
\* a file by a logged-in user is answered 201 and stores exactly the
\* payload, and getFile of a file node by its owner without size is
\* answered 200 with exactly the stored bytes.
C16_RoundTrip ==
    \A r \in Reqs :
        /\ (/\ reqs[r].pc = "done" /\ reqs[r].op = "postUpload"
            /\ reqs[r].userId # Null
            /\ \E p \in Payloads : reqs[r].body = PayloadBody(p))
             => /\ reqs[r].status = 201
                /\ \E p \in Payloads :
                      /\ reqs[r].body = PayloadBody(p)
                      /\ blobs[<<reqs[r].localPath, "">>] = p
        /\ (/\ reqs[r].pc = "done" /\ reqs[r].op = "getFile"
            /\ reqs[r].file.type = "file"
            /\ reqs[r].userId = reqs[r].file.userId
            /\ reqs[r].size = "")
             => /\ reqs[r].status = 200
                /\ reqs[r].bytes = blobs[<<reqs[r].file.localPath, "">>]
                /\ reqs[r].bytes \in Payloads

\* C17: every job in the work queue names a stored image node and that
\* node's owner; no node has two jobs; every stored image node has its job
\* as soon as its upload has gone past insertOne; an upload that was not
\* answered 201 has added no job.
C17_OneJobPerImage ==
    /\ \A k \in 1 .. Len(queue) :
          /\ queue[k].fileId \in 1 .. Len(files)
          /\ files[queue[k].fileId].type = "image"
          /\ files[queue[k].fileId].userId = queue[k].userId
          /\ \A l \in 1 .. Len(queue) :
                queue[l].fileId = queue[k].fileId => l = k
    /\ \A i \in 1 .. Len(files) :
          files[i].type = "image"
            => \/ \E k \in 1 .. Len(queue) : queue[k].fileId = i
               \/ \E r \in Reqs : /\ reqs[r].op = "postUpload"
                                  /\ reqs[r].pc = "respond"
                                  /\ reqs[r].node._id = i
    /\ \A r \in Reqs :
          (reqs[r].pc = "done" /\ reqs[r].op = "postUpload"
             /\ reqs[r].status # 201)
            => "job" \notin reqs[r].effects
\* The store holds an image node with its job next to a node without one,
\* and the upload of the image has been answered.
C17_Witness ==
    /\ Len(files) = 2 /\ Len(queue) = 1
    /\ files[queue[1].fileId].type = "image"
    /\ \E i \in 1 .. Len(files) : files[i].type # "image"
    /\ \E r \in Reqs : /\ reqs[r].pc = "done" /\ reqs[r].status = 201
                       /\ reqs[r].body.type = "image"

\* C18: a file or image node is inserted only when the blob at its
\* localPath is already written, so every such node in the store has its
\* blob; when insertOne fails after the write, the step leaves the blob in
\* place and adds no node and no job.
C18_BlobBeforeMetadata ==
    [][ /\ \A i \in 1 .. Len(files') :
              files'[i].type \in {"file", "image"}
                => /\ <<files'[i].localPath, "">> \in DOMAIN blobs
                   /\ <<files'[i].localPath, "">> \in DOMAIN blobs'
        /\ \A r \in Reqs :
              (/\ reqs[r].op = "postUpload" /\ reqs[r].pc = "insert"
               /\ reqs'[r].pc = "done")
                => /\ UNCHANGED <<files, blobs, queue>>
                   /\ reqs'[r].status # 201
                   /\ "node" \notin reqs'[r].effects
                   /\ "job" \notin reqs'[r].effects
                   /\ reqs[r].body.type \in {"file", "image"}
                        => /\ <<reqs[r].localPath, "">> \in DOMAIN blobs'
                           /\ \A i \in 1 .. Len(files') :
                                 files'[i].localPath # reqs[r].localPath
      ]_vars
\* The insert of an image failed after its blob was written: the blob is an
\* orphan, while another node with its own blob is in the store.
C18_Witness ==
    \E r \in Reqs :
        /\ reqs[r].pc = "done" /\ reqs[r].op = "postUpload"
        /\ reqs[r].status = 500 /\ reqs[r].body.type = "image"
        /\ "blob" \in reqs[r].effects
        /\ <<reqs[r].localPath, "">> \in DOMAIN blobs
        /\ Len(files) = 1 /\ files[1].type = "file"
        /\ Len(queue) = 0

\* C19: under any interleaving of putPublish and putUnpublish of the owner
\* on one node, each request that found the node goes on to its update and
\* is answered 200; each update stores its own value whatever the node held,
\* and nothing but such an update changes the flag, so the node ends with the
\* value of the update applied last.
C19_LastWriteWins ==
    [][ \A r \in Reqs :
          reqs[r].op \in {"putPublish", "putUnpublish"}
            => /\ (/\ reqs[r].pc = "find" /\ reqs'[r] # reqs[r]
                   /\ findOwned(reqs[r].id, reqs[r].userId) # NoFile)
                    => reqs'[r].pc = "update"
               /\ (reqs[r].pc = "update" /\ reqs'[r] # reqs[r])
                    => /\ reqs'[r].pc = "refind"
                       /\ files'[reqs[r].id].isPublic = (reqs[r].op = "putPublish")
               /\ (reqs[r].pc = "refind" /\ reqs'[r] # reqs[r])
                    => /\ reqs'[r].pc = "done"
                       /\ reqs'[r].status = 200
               /\ (\A q \in Reqs : ~(reqs[q].pc = "update" /\ reqs'[q] # reqs[q]))
                    => \A i \in 1 .. Len(files) :
                          files'[i].isPublic = files[i].isPublic
      ]_vars
\* A putUnpublish and a putPublish of node 1 overlapped: the putUnpublish
\* was applied first and read the node again after the putPublish.
C19_Witness ==
    \E r, q \in Reqs :
        /\ reqs[r].pc = "done" /\ reqs[r].op = "putPublish"
        /\ reqs[q].pc = "done" /\ reqs[q].op = "putUnpublish"
        /\ reqs[r].status = 200 /\ reqs[q].status = 200
        /\ reqs[r].node.isPublic /\ reqs[q].node.isPublic
        /\ files[1].isPublic

\* The answer the stated order of checks gives to an upload with this body.
C20_FirstFailure(body) ==
    IF body.name \in {Undefined, ""} THEN "Missing name"
    ELSE IF body.type \notin {"folder", "file", "image"} THEN "Missing type"
    ELSE IF body.type # "folder" /\ (~body.data.given \/ body.data.b64 = <<>>)
    THEN "Missing data"
    ELSE IF body.parentId # RootId /\ body.parentId \notin 1 .. Len(files)
    THEN "Parent not found"
    ELSE IF body.parentId # RootId /\ files[body.parentId].type # "folder"
    THEN "Parent is not a folder"
    ELSE ""
\* C20 as stated: an authorized postUpload reports the first failure only,
\* in the order name, type, data, parent not found, parent not a folder,
\* with 400 and that message, and is answered 201 when nothing fails.
C20_FixedValidationOrder ==
    \A r \in Reqs :
        (/\ reqs[r].pc = "done" /\ reqs[r].op = "postUpload"
         /\ reqs[r].userId # Null)
          => IF C20_FirstFailure(reqs[r].body) = ""
             THEN reqs[r].status = 201
             ELSE /\ reqs[r].status = 400
                  /\ reqs[r].error = C20_FirstFailure(reqs[r].body)

C22_NoWaitForThumbnails ==
    [][ \A r \in Reqs :
          /\ (/\ reqs[r].op = "postUpload" /\ reqs[r].pc = "respond"
              /\ reqs'[r].pc = "done" /\ reqs[r].body.type = "image")
               => /\ reqs'[r].status = 201
                  /\ UNCHANGED blobs
                  /\ \A size \in ThumbSizes :
                        <<reqs[r].localPath, size>> \notin DOMAIN blobs'
          /\ (/\ reqs[r].op = "getFile" /\ reqs[r].pc = "read"
              /\ reqs'[r].pc = "done")
               => LET lp == reqs[r].file.localPath
                  IN  /\ reqs[r].file.isPublic
                           \/ reqs[r].userId = reqs[r].file.userId
                      /\ (/\ reqs'[r].size \in ThumbSizes
                          /\ <<lp, reqs'[r].size>> \notin DOMAIN blobs)
                           => /\ reqs'[r].status = 404
                              /\ reqs'[r].error = "Not found"
                      /\ reqs'[r].size = ""
                           => /\ reqs'[r].status = 200
                              /\ reqs'[r].bytes = blobs[<<lp, "">>]
                              /\ reqs'[r].bytes \in {<<104, 105>>, <<0>>}
      ]_vars

\* A width of 100 was asked for while the worker had written the variant
\* of width 250 only: the answer was 404.
C22_Witness ==
    \E r \in Reqs :
        /\ reqs[r].pc = "done" /\ reqs[r].op = "getFile"
        /\ reqs[r].file.type = "image" /\ reqs[r].size = "100"
        /\ reqs[r].status = 404
        /\ <<reqs[r].file.localPath, "100">> \notin DOMAIN blobs
        /\ <<reqs[r].file.localPath, "250">> \in DOMAIN blobs

\* C23: getConnect stores its session under a key that was not in the cache
\* store and touches no other entry, so sessions of one user exist side by
\* side; the del of getDisconnect removes the key of the presented token and
\* nothing else, and leaves the document store, the blobs and the queue.
C23_SessionsAreIndependent ==
    [][ \A r \in Reqs :
          /\ (reqs[r].op = "getConnect" /\ reqs[r].pc = "set"
                /\ reqs'[r].pc = "expire")
               => LET key == tokenKey(reqs[r].outToken)
                  IN  /\ key \notin DOMAIN cache
                      /\ DOMAIN cache' = DOMAIN cache \cup {key}
                      /\ cache'[key].val = reqs[r].userId
                      /\ \A k \in DOMAIN cache : cache'[k] = cache[k]
          /\ (reqs[r].op = "getConnect" /\ reqs[r].pc = "expire"
                /\ reqs'[r].pc = "done")
               => /\ DOMAIN cache' = DOMAIN cache
                  /\ \A k \in DOMAIN cache \ {tokenKey(reqs[r].outToken)} :
                        cache'[k] = cache[k]
          /\ (reqs[r].op = "getDisconnect" /\ reqs[r].pc = "del"
                /\ reqs'[r].pc = "done")
               => LET key == tokenKey(reqs[r].token)
                  IN  /\ reqs'[r].status = 204
                      /\ DOMAIN cache' = DOMAIN cache \ {key}
                      /\ \A k \in DOMAIN cache' : cache'[k] = cache[k]
                      /\ UNCHANGED <<files, blobs, queue>>
      ]_vars
\* A user logged in twice and revoked one of the two sessions: the other
\* session of the same user is still in the cache store.
C23_Witness ==
    \E r \in Reqs :
        /\ reqs[r].pc = "done" /\ reqs[r].op = "getDisconnect"
        /\ reqs[r].status = 204
        /\ tokenKey(reqs[r].token) \notin DOMAIN cache
        /\ \E t \in TokenIds \ {reqs[r].token} :
              /\ tokenKey(t) \in DOMAIN cache
              /\ cache[tokenKey(t)].val = reqs[r].userId

\* C24 as stated: a 200 answer of getIndex without a parentId parameter is
\* the page of the requester's nodes whose parentId is the root sentinel,
\* the same list that parentId='0' gives.
C24_DefaultParentIsRoot ==
    \A r \in Reqs :
        (/\ reqs[r].pc = "done" /\ reqs[r].op = "getIndex"
         /\ reqs[r].status = 200
         /\ ~reqs[r].query.hasParent)
          => reqs[r].list
               = pageOf(matching(files, matchParent([hasParent |-> TRUE,
                                                     parentId |-> RootId,
                                                     page |-> 0]).id,
                                 reqs[r].userId),
                        reqs[r].query.page)

\* C25: a putPublish or putUnpublish acts for the user its token resolves
\* to in the cache store at its lookup, and for nobody without one; the
\* isPublic flag of a stored node changes only in the update step of such a
\* request acting for the node's owner; a node starts with the flag its
\* uploader gave it, the uploader being its owner.
C25_OnlyOwnerChangesVisibility ==
    [][ /\ \A r \in Reqs :
              (/\ reqs[r].op \in {"putPublish", "putUnpublish"}
               /\ reqs[r].pc = "get" /\ reqs'[r] # reqs[r])
                => IF tokenKey(reqs[r].token) \in DOMAIN cache
                   THEN /\ reqs'[r].userId = cache[tokenKey(reqs[r].token)].val
                        /\ reqs'[r].userId \in UserIds
                   ELSE /\ reqs'[r].pc = "done" /\ reqs'[r].status = 401
        /\ \A i \in 1 .. Len(files) :
              files'[i].isPublic # files[i].isPublic
                => \E r \in Reqs :
                      /\ reqs[r].op \in {"putPublish", "putUnpublish"}
                      /\ reqs[r].pc = "update"
                      /\ reqs[r].token # NoToken
                      /\ reqs[r].userId = files[i].userId
                      /\ reqs[r].id = i
        /\ Len(files') > Len(files)
             => \E r \in Reqs :
                   /\ reqs[r].op = "postUpload" /\ reqs[r].pc = "insert"
                   /\ files'[Len(files')].userId = reqs[r].userId
                   /\ files'[Len(files')].isPublic = reqs[r].body.isPublic
      ]_vars
\* A putPublish with the token of another user was answered 404 and the
\* node is still private.
C25_Witness ==
    \E r \in Reqs :
        /\ reqs[r].pc = "done" /\ reqs[r].op = "putPublish"
        /\ reqs[r].status = 404 /\ reqs[r].userId \in UserIds
        /\ reqs[r].id \in 1 .. Len(files)
        /\ files[reqs[r].id].userId # reqs[r].userId
        /\ ~files[reqs[r].id].isPublic

\* C26 as stated: every stored node whose parentId is not the root sentinel
\* has the same owner as the folder node its parentId names.
C26_ParentHasSameOwner ==
    \A i \in 1 .. Len(files) :
        files[i].parentId # RootId
          => /\ files[i].parentId \in 1 .. Len(files)
             /\ files[files[i].parentId].userId = files[i].userId

\* The step writes a node, a blob, a job or a flag.
C27_Writes ==
    files' # files \/ blobs' # blobs \/ queue' # queue
\* C27 as stated: once getDisconnect has answered 204 for a token, no
\* request that presented that token writes a node, a blob, a job or a flag
\* any more, requests past their cache lookup included.
C27_NoWriteAfterRevoke ==
    [][ C27_Writes
          => \E r \in Reqs : /\ reqs'[r] # reqs[r]
                             /\ reqs[r].token \notin revoked ]_vars
\* C27 amended: every write is a step of a request whose token resolved to
\* a user at its cache lookup and had not been revoked when the request
\* started; a request that starts after the 204 of getDisconnect for its
\* token is answered 401 at its lookup and writes nothing.
C27_NoWriteByRequestStartedAfterRevoke ==
    [][ /\ C27_Writes
          => \E r \in Reqs : /\ reqs'[r] # reqs[r]
                             /\ reqs[r].userId \in UserIds
                             /\ ~reqs[r].afterRevoke
        /\ \A r \in Reqs :
              (reqs[r].afterRevoke /\ reqs'[r] # reqs[r])
                => /\ ~C27_Writes
                   /\ reqs[r].effects = {}
                   /\ \/ reqs'[r].pc = "idle"
                      \/ reqs'[r].pc = "done" /\ reqs'[r].status = 401
      ]_vars
\* An upload is past its cache lookup and about to write its blob while a
\* getDisconnect for its token has already been answered 204.
C27_Witness ==
    \E r, q \in Reqs :
        /\ reqs[r].op = "postUpload" /\ reqs[r].pc = "write"
        /\ reqs[r].token \in revoked /\ ~reqs[r].afterRevoke
        /\ reqs[q].op = "getDisconnect" /\ reqs[q].pc = "done"
        /\ reqs[q].status = 204 /\ reqs[q].token = reqs[r].token

====
